---------------------------- MODULE Spec2Model ----------------------------
(***************************************************************************)
(* Model of the confuse module's harness coordinator (ModuleCtx):          *)
(* bootstrap (try_new), the pending stop reason (set_stopped_reason) and   *)
(* the simulation-stopped handler (handle_stop), together with the fuzzer  *)
(* on the other end of the two IPC channels.                               *)
(*                                                                         *)
(* handle_stop holds the context lock from entry to return; it suspends    *)
(* only in rx.recv().  The model therefore splits it at its recv points:   *)
(* pc = "idle" (not in handle_stop), "wait_reset" (blocked in the recv     *)
(* after Stopped) and "wait_run" (blocked in the recv after Ready).        *)
(*                                                                         *)
(* The fuzzer -> harness channel is an unbounded FIFO written by another   *)
(* process.  The harness observes it only through recv, so the model keeps *)
(* no queue: each recv draws the message that arrives next, or fails once  *)
(* the fuzzer has dropped its end and the channel is drained.              *)
(*                                                                         *)
(* The coverage recorder (log) is checked in a specification of its own,   *)
(* SpecLog, on a map long enough for the fill pattern to wrap.             *)
(***************************************************************************)
EXTENDS Integers, Sequences, FiniteSets, TLC

VARIABLES
    ctx,            \* "none" before try_new, "ok" once built, "failed" if try_new failed
    haps,           \* simulator haps with a callback installed
    init_info,      \* the configuration received with Initialize
    writer,         \* the coverage map bytes, as a sequence (index i is writer[i+1])
    processor,      \* ModuleCtx.processor is Some(_)
    stop_reason,    \* ModuleCtx.stop_reason
    initialized,    \* ModuleCtx.initialized
    prev_loc,       \* ModuleCtx.prev_loc
    buffer_address, \* ModuleCtx.buffer_address
    buffer_size,    \* ModuleCtx.buffer_size
    peer,           \* the fuzzer's end of the channels: "alive", "closing" (dropped,
                    \* messages still in flight) or "gone" (dropped and drained)
    pc,             \* position of handle_stop
    trace,          \* every effect of the harness so far, in program order
    maps,           \* OutputConfig.maps, on the fuzzer's side
    project,        \* Project.path: the ProjectPath of the project, if one was made
    disk            \* the directories that exist

vars == <<ctx, haps, init_info, writer, processor, stop_reason, initialized,
          prev_loc, buffer_address, buffer_size, peer, pc, trace, maps, project, disk>>

-----------------------------------------------------------------------------
(* Bounds of the model *)

\* handle_stop is entered at most MaxCalls times
MaxCalls == 2
\* the coverage map holds 2^MapBits bytes
MapBits == 3

\* log is called at most MaxLogs times
MaxLogs == 4
\* the coverage map of the tracing specification holds 2^LogMapBits bytes
LogMapBits == 9

Pow2(n) == 2 ^ n
MapLen == Pow2(MapBits)
LogMapLen == Pow2(LogMapBits)
\* u8::MAX
U8_MAX == 255

\* values the guest may hold in rsi / rdi at the start magic
RsiValues == {16, 64}
RdiValues == {8}
\* inputs the fuzzer may send with Run
Inputs == { <<>>, <<1, 2, 3, 4, 5, 6, 7, 200, 9, 10, 255>> }
\* program counters the tracing callback may report
PcValues == {16, 33, 256, 8388607}
\* fault kinds the fuzzer may configure
Faults == {"Triple", "Page"}
\* sizes sim.rexec state_info may have
SinfoSizes == {0, 1, 2}

StopReasons == {"None", "MagicStart", "MagicStop", "Crash"}

-----------------------------------------------------------------------------
(* Messages and effects *)

\* TraceMode
TraceModes == {"Once", "HitCount"}
\* InputConfig::default().trace_mode
DefaultTraceMode == "HitCount"

Msg(t, in, fs) == [type |-> t, input |-> in, faults |-> fs, trace_mode |-> DefaultTraceMode]
\* configurations the fuzzer may send with Initialize
Configs == {[faults |-> fs, trace_mode |-> m] : fs \in SUBSET Faults, m \in TraceModes}
\* the configuration of the runs that follow the stop protocol: every fault kind
\* counts as a crash, the default trace mode
RunConfig == [faults |-> Faults, trace_mode |-> DefaultTraceMode]
Initialize(cfg) ==
    [Msg("Initialize", <<>>, cfg.faults) EXCEPT !.trace_mode = cfg.trace_mode]
FuzzerEvents ==
    {Initialize(RunConfig)}
      \cup {Msg("Run", in, {}) : in \in Inputs}
      \cup {Msg("Reset", <<>>, {}), Msg("Stop", <<>>, {})}

\* one effect of the harness: a simulator call, a send, a receive ("recv": a
\* message a match arm accepts; "unexpected": one that falls to the error arm)
\* or a return
Ev(op, arg) == [op |-> op, arg |-> arg, num |-> 0, val |-> <<>>, width |-> 0]
\* a message a match arm accepted, with the input it carries
RecvEv(r) == [op |-> "recv", arg |-> r.type, num |-> 0, val |-> r.input, width |-> 0]
\* tx.send(m): "send" when it returned Ok, "send_err" when it returned the error
SendEv(ok, m) == Ev(IF ok THEN "send" ELSE "send_err", m)
\* a register read (`read`) and the value it returned
ReadEv(reg, value) == [op |-> "read", arg |-> reg, num |-> value, val |-> <<>>, width |-> 0]
\* SIM_get_attribute(rexec, "state_info") and the size SIM_attr_list_size returned
AttrEv(size) ==
    [op |-> "get_attribute", arg |-> "state_info", num |-> size, val |-> <<>>, width |-> 0]
\* SIM_write_phys_memory(cpu, a, v, w); v is the u64 as its eight base-256 digits,
\* least significant first
WriteEv(a, v, w) == [op |-> "write", arg |-> "", num |-> a, val |-> v, width |-> w]

-----------------------------------------------------------------------------
(* Views of the effect trace *)

Positions(op, arg) == {i \in DOMAIN trace : trace[i].op = op /\ trace[i].arg = arg}
Count(op, arg) == Cardinality(Positions(op, arg))

\* number of handle_stop calls entered so far
Calls == Count("call", "")
\* number of log calls so far
Logs == Cardinality({i \in DOMAIN trace : trace[i].op = "log"})
\* some handle_stop call has returned an error
Failed == Count("ret", "Err") > 0

\* the run goes on: handle_stop can still be entered, or is in progress
Live == Calls < MaxCalls \/ pc # "idle"

\* tx.send(m)? succeeds while the fuzzer holds its receiver; once the fuzzer has
\* dropped it the send may still be buffered or may fail
SendOutcomes == IF peer = "alive" THEN {TRUE} ELSE {TRUE, FALSE}

\* rx.recv(): blocks until a message arrives; fails when the fuzzer has dropped
\* its sender and nothing is left in flight.  PeerGone stands for that error.
PeerGone == Msg("PeerGone", <<>>, {})
RecvOutcomes ==
    IF peer = "alive" THEN FuzzerEvents
    ELSE IF peer = "closing" THEN FuzzerEvents \cup {PeerGone}
    ELSE {PeerGone}
\* the channel after recv returned r
PeerAfter(r) == IF r = PeerGone THEN "gone" ELSE peer
\* (variant: a failed receive is taken for a Stop message)
Received_or_stop(r) == IF r = PeerGone THEN Msg("Stop", <<>>, {}) ELSE r
\* self.rx.recv()?: what the match sees, the message or the error that returns
Received(r) == r

\* no Project has been made yet
NoProject == [path |-> "", temporary |-> FALSE]

-----------------------------------------------------------------------------
(* Initial state: nothing constructed, the simulator not yet touched *)

Init ==
    /\ ctx = "none"
    /\ haps = {}
    /\ init_info = [faults |-> {}, trace_mode |-> DefaultTraceMode]
    /\ writer = <<>>
    /\ processor = FALSE
    /\ stop_reason = "None"
    /\ initialized = FALSE
    /\ prev_loc = 0
    /\ buffer_address = 0
    /\ buffer_size = 0
    /\ peer = "alive"
    /\ pc = "idle"
    /\ trace = <<>>
    /\ maps = <<>>
    /\ project = NoProject
    /\ disk = {}

-----------------------------------------------------------------------------
(* The fuzzer: the other end of both channels *)

fuzzer_disconnect ==
    /\ Live
    /\ peer = "alive"
    /\ peer' = "closing"
    /\ UNCHANGED <<ctx, haps, init_info, writer, processor, stop_reason, initialized,
                   prev_loc, buffer_address, buffer_size, pc, trace, maps, project, disk>>

-----------------------------------------------------------------------------
(* CTX and ModuleCtx::try_new *)

\* the pattern try_new writes into the coverage map
InitPattern(i) == i % U8_MAX
InitialMap(len) == [k \in 1..len |-> InitPattern(k - 1)]
\* (variant: the map handle is never sent)
SharedMemSent_missing == <<>>
\* what try_new sends once the map is filled
SharedMemSent == <<Ev("send", "SharedMem")>>

\* haps installed by the CTX initializer before it calls try_new
BaseHaps == {"Core_Magic_Instruction", "Core_Simulation_Stopped"}
\* (variant: the core-exception hap is installed for every non-empty fault set)
FaultHaps_any(faults) ==
    (IF "Triple" \in faults THEN {"X86_Triple_Fault"} ELSE {})
      \cup (IF faults # {} THEN {"Core_Exception"} ELSE {})
\* haps try_new installs for the configured fault set
FaultHaps(faults) ==
    (IF "Triple" \in faults THEN {"X86_Triple_Fault"} ELSE {})
      \cup (IF faults \ {"Triple"} # {} THEN {"Core_Exception"} ELSE {})

\* (variant: every first message is taken for Initialize)
AcceptedFirst_any == {"Initialize", "Run", "Reset", "Stop"}
\* the first message try_new accepts; any other one is an error
AcceptedFirst == {"Initialize"}

\* what the first rx.recv() of try_new may return when the fuzzer configures one
\* of cfgs: its Initialize, any other message, or the error
FirstOutcomes(cfgs) ==
    {Initialize(cfg) : cfg \in cfgs} \cup {r \in RecvOutcomes : r.type # "Initialize"}

\* CTX installs the two base haps, then calls try_new, which receives the first
\* message, installs the fault haps, fills the map of len bytes and sends SharedMem
try_new_cfg(len, cfgs) ==
    /\ ctx = "none"
    /\ UNCHANGED <<processor, stop_reason, initialized, prev_loc, buffer_address,
                   buffer_size, pc, maps, project, disk>>
    /\ \E bootstrap_ok \in BOOLEAN, r \in FirstOutcomes(cfgs), send_ok \in SendOutcomes :
          \* var(BOOTSTRAP_SOCKNAME)?, connect, channel and bootstrap.send may fail;
          \* the receive is only reached when they did not
          /\ peer' = IF bootstrap_ok THEN PeerAfter(r) ELSE peer
          /\ IF ~bootstrap_ok \/ r = PeerGone
             THEN /\ ctx' = "failed"
                  /\ haps' = BaseHaps
                  /\ trace' = trace
                  /\ UNCHANGED <<init_info, writer>>
             ELSE IF r.type \notin AcceptedFirst
             THEN /\ ctx' = "failed"
                  /\ haps' = BaseHaps
                  /\ trace' = Append(trace, Ev("unexpected", r.type))
                  /\ UNCHANGED <<init_info, writer>>
             ELSE IF ~send_ok
             THEN /\ ctx' = "failed"
                  /\ haps' = BaseHaps \cup FaultHaps(r.faults)
                  /\ trace' = trace \o <<RecvEv(r), SendEv(FALSE, "SharedMem")>>
                  /\ UNCHANGED <<init_info, writer>>
             ELSE /\ ctx' = "ok"
                  /\ haps' = BaseHaps \cup FaultHaps(r.faults)
                  /\ init_info' = [faults |-> r.faults, trace_mode |-> r.trace_mode]
                  /\ writer' = InitialMap(len)
                  /\ trace' = trace \o <<RecvEv(r)>> \o SharedMemSent

\* IpcShm::default(): the map of the harness
try_new == try_new_cfg(MapLen, {RunConfig})

-----------------------------------------------------------------------------
(* Attribute setters and callbacks: they run under the context lock *)

set_processor ==
    /\ Live
    /\ ctx = "ok" /\ pc = "idle"
    /\ processor' = TRUE
    /\ UNCHANGED <<ctx, haps, init_info, writer, stop_reason, initialized, prev_loc,
                   buffer_address, buffer_size, peer, pc, trace, maps, project, disk>>

set_stopped_reason(reason) ==
    /\ Live
    /\ ctx = "ok" /\ pc = "idle"
    /\ stop_reason' = reason
    /\ UNCHANGED <<ctx, haps, init_info, writer, processor, initialized, prev_loc,
                   buffer_address, buffer_size, peer, pc, trace, maps, project, disk>>

-----------------------------------------------------------------------------
(* ModuleCtx::handle_stop *)

\* input.chunks(8): chunk i (from 0) of the input
NumChunks(input) == (Len(input) + 7) \div 8
Chunk(input, i) == SubSeq(input, 8 * i + 1, IF 8 * i + 8 < Len(input) THEN 8 * i + 8 ELSE Len(input))
\* data = [0; 8] overwritten by the chunk; u64::from_le_bytes(data)
Data(chunk) == [j \in 1..8 |-> IF j <= Len(chunk) THEN chunk[j] ELSE 0]
\* (variant: every chunk is written with the full width)
WriteEvents_fullwidth(input, base) ==
    [k \in 1..NumChunks(input) |->
        WriteEv(base + (k - 1) * 8, Data(Chunk(input, k - 1)), 8)]
\* the SIM_write_phys_memory calls for one Run(input)
WriteEvents(input, base) ==
    [k \in 1..NumChunks(input) |->
        WriteEv(base + (k - 1) * 8, Data(Chunk(input, k - 1)), Len(Chunk(input, k - 1)))]

\* (variant: the coverage map is zeroed on the way through handle_stop)
HandleStopFrame_clears ==
    /\ UNCHANGED <<ctx, haps, init_info, processor, prev_loc, maps, project, disk>>
    /\ writer' = [i \in DOMAIN writer |-> 0]
\* the frame of every handle_stop step: fields no branch assigns
HandleStopFrame == UNCHANGED <<ctx, haps, init_info, writer, processor, prev_loc, maps, project, disk>>

\* handle_stop is entered from the simulation-stopped callback, under the lock
HandleStopEntry ==
    /\ ctx = "ok" /\ pc = "idle"
    /\ Calls < MaxCalls
    /\ HandleStopFrame

\* an early return with an error: the tail of the function is skipped
ReturnErr(evs) ==
    /\ trace' = trace \o evs \o <<Ev("ret", "Err")>>
    /\ pc' = "idle"

\* the tail of the function: self.stop_reason = None; Ok(())
ReturnOk(evs) ==
    /\ trace' = trace \o evs \o <<Ev("ret", "Ok")>>
    /\ stop_reason' = "None"
    /\ pc' = "idle"

\* (variant: a stop with no pending reason resumes the simulation)
handle_stop_none_resumes ==
    /\ HandleStopEntry
    /\ stop_reason = "None"
    /\ ReturnOk(<<Ev("call", ""), Ev("resume", "")>>)
    /\ UNCHANGED <<initialized, buffer_address, buffer_size, peer>>

\* None => {}
handle_stop_none ==
    /\ HandleStopEntry
    /\ stop_reason = "None"
    /\ ReturnOk(<<Ev("call", "")>>)
    /\ UNCHANGED <<initialized, buffer_address, buffer_size, peer>>

\* (variant: the registers are read again on every start magic)
handle_stop_start_initialized_rereads ==
    /\ HandleStopEntry
    /\ stop_reason = "MagicStart" /\ initialized
    /\ \E rsi \in RsiValues, rdi \in RdiValues :
          /\ ReturnOk(<<Ev("call", ""), ReadEv("rsi", rsi), ReadEv("rdi", rdi),
                        Ev("resume", "")>>)
          /\ buffer_address' = rsi
          /\ buffer_size' = rdi
    /\ UNCHANGED <<initialized, peer>>

\* (variant: Ready is announced again on every start magic)
handle_stop_start_initialized_ready ==
    /\ HandleStopEntry
    /\ stop_reason = "MagicStart" /\ initialized
    /\ ReturnOk(<<Ev("call", ""), Ev("send", "Ready"), Ev("resume", "")>>)
    /\ UNCHANGED <<initialized, buffer_address, buffer_size, peer>>

\* (variant: the snapshot is taken again on every start magic)
handle_stop_start_initialized_saves ==
    /\ HandleStopEntry
    /\ stop_reason = "MagicStart" /\ initialized
    /\ ReturnOk(<<Ev("call", ""), Ev("save", "origin"), Ev("resume", "")>>)
    /\ UNCHANGED <<initialized, buffer_address, buffer_size, peer>>

\* Magic::Start, already initialized
handle_stop_start_initialized ==
    /\ HandleStopEntry
    /\ stop_reason = "MagicStart" /\ initialized
    /\ ReturnOk(<<Ev("call", ""), Ev("resume", "")>>)
    /\ UNCHANGED <<initialized, buffer_address, buffer_size, peer>>

\* Magic::Start, not initialized: snapshot, registers, Ready
handle_stop_start_snapshot ==
    /\ HandleStopEntry
    /\ stop_reason = "MagicStart" /\ ~initialized
    /\ LET saved == <<Ev("call", ""), Ev("save", "origin")>>
           numbers == <<Ev("get_number", "rsi"), Ev("get_number", "rdi")>>
           reads(rsi_value, rdi_value) == <<ReadEv("rsi", rsi_value), ReadEv("rdi", rdi_value)>>
       IN
       \E rsi \in RsiValues, rdi \in RdiValues,
          iface \in {"ok", "no_get_number", "no_read"}, send_ok \in SendOutcomes :
          IF ~processor \/ iface = "no_get_number"
          THEN /\ ReturnErr(saved)
               /\ UNCHANGED <<stop_reason, initialized, buffer_address, buffer_size, peer>>
          ELSE IF iface = "no_read"
          THEN /\ ReturnErr(saved \o numbers)
               /\ UNCHANGED <<stop_reason, initialized, buffer_address, buffer_size, peer>>
          ELSE /\ buffer_address' = rsi
               /\ buffer_size' = rdi
               /\ initialized' = TRUE
               /\ UNCHANGED <<stop_reason, peer>>
               /\ IF send_ok
                  THEN /\ trace' = trace \o saved \o numbers \o reads(rsi, rdi)
                                         \o <<Ev("send", "Ready")>>
                       /\ pc' = "wait_run"
                  ELSE ReturnErr(saved \o numbers \o reads(rsi, rdi)
                                   \o <<SendEv(FALSE, "Ready")>>)

\* (variant: every stop is reported as a normal stop)
StopType_normal(reason) == "Stopped_Normal"
\* StopType::Crash for a crash, StopType::Normal for the stop magic
StopType(reason) == IF reason = "Crash" THEN "Stopped_Crash" ELSE "Stopped_Normal"

\* (variant: any non-empty state_info list is accepted)
ValidStateInfo_nonempty(sinfo_size) == sinfo_size >= 1
\* ensure!(sinfo_size == 1, ..)
ValidStateInfo(sinfo_size) == sinfo_size = 1

\* Magic::Stop and Crash, up to the wait for Reset or Stop
handle_stop_stopped ==
    /\ HandleStopEntry
    /\ stop_reason \in {"MagicStop", "Crash"}
    /\ UNCHANGED <<stop_reason, initialized, buffer_address, buffer_size, peer>>
    /\ \E send_ok \in SendOutcomes, sinfo_size \in SinfoSizes :
          IF ~send_ok
          THEN ReturnErr(<<Ev("call", ""), SendEv(FALSE, StopType(stop_reason))>>)
          ELSE LET sent == <<Ev("call", ""), Ev("send", StopType(stop_reason)),
                             AttrEv(sinfo_size)>>
               IN IF ~ValidStateInfo(sinfo_size)
                  THEN ReturnErr(sent)
                  ELSE /\ trace' = trace \o sent
                       /\ pc' = "wait_reset"

\* match &self.stop_reason, up to the first recv or the return
handle_stop ==
    \/ handle_stop_none
    \/ handle_stop_start_initialized
    \/ handle_stop_start_snapshot
    \/ handle_stop_stopped

\* (variant: a Run after Stopped falls through instead of failing)
ResetOrStop_any == {"Reset", "Stop", "Run"}
\* (variant: an Initialize after Stopped is taken like a Stop)
ResetOrStop_initialize == {"Reset", "Stop", "Initialize"}
\* the messages the match after Stopped accepts; every other one is an error
ResetOrStop == {"Reset", "Stop"}

\* (variant: Reset is accepted without restoring the checkpoint)
ResetEvents_norestore(type) == <<Ev("recv", type)>>
\* (variant: the checkpoint is restored and the future kept)
ResetEvents_nodiscard(type) ==
    IF type = "Reset"
    THEN <<Ev("recv", type), Ev("restore", "0")>>
    ELSE <<Ev("recv", type)>>
\* effects of the message received while waiting for Reset or Stop
ResetEvents(type) ==
    IF type = "Reset"
    THEN <<Ev("recv", type), Ev("restore", "0"), Ev("discard_future", "")>>
    ELSE <<Ev("recv", type)>>

\* match self.rx.recv()? { Reset, Stop, _ }, then Ready and get_processor
handle_stop_recv_reset ==
    /\ pc = "wait_reset"
    /\ HandleStopFrame
    /\ UNCHANGED <<stop_reason, initialized, buffer_address, buffer_size>>
    /\ \E arrived \in RecvOutcomes, send_ok \in SendOutcomes :
          LET r == Received(arrived) IN
          /\ peer' = PeerAfter(arrived)
          /\ IF r = PeerGone
             THEN ReturnErr(<<>>)
             ELSE IF r.type \notin ResetOrStop
             THEN ReturnErr(<<Ev("unexpected", r.type)>>)
             ELSE IF ~send_ok
             THEN ReturnErr(ResetEvents(r.type) \o <<SendEv(FALSE, "Ready")>>)
             ELSE IF ~processor
             THEN ReturnErr(ResetEvents(r.type) \o <<Ev("send", "Ready")>>)
             ELSE /\ trace' = trace \o ResetEvents(r.type) \o <<Ev("send", "Ready")>>
                  /\ pc' = "wait_run"

\* match self.rx.recv()? { Run(input), _ }
handle_stop_recv_run ==
    /\ pc = "wait_run"
    /\ HandleStopFrame
    /\ UNCHANGED <<initialized, buffer_address, buffer_size>>
    /\ \E arrived \in RecvOutcomes :
          LET r == Received(arrived) IN
          /\ peer' = PeerAfter(arrived)
          /\ IF r = PeerGone
             THEN /\ ReturnErr(<<>>)
                  /\ UNCHANGED stop_reason
             ELSE IF r.type = "Run"
             THEN ReturnOk(<<RecvEv(r)>> \o WriteEvents(r.input, buffer_address)
                              \o <<Ev("resume", "")>>)
             ELSE /\ ReturnErr(<<Ev("unexpected", r.type)>>)
                  /\ UNCHANGED stop_reason

-----------------------------------------------------------------------------
(* ModuleCtx::log *)

\* a ^ b and a & b on naturals
RECURSIVE BitXor(_, _)
BitXor(a, b) ==
    IF a = 0 THEN b
    ELSE IF b = 0 THEN a
    ELSE (((a % 2) + (b % 2)) % 2) + 2 * BitXor(a \div 2, b \div 2)
RECURSIVE BitAnd(_, _)
BitAnd(a, b) ==
    IF a = 0 \/ b = 0 THEN 0
    ELSE ((a % 2) * (b % 2)) + 2 * BitAnd(a \div 2, b \div 2)

\* (variant: the location hash is not masked to the map)
CurLoc_unmasked(ip, len) == BitXor(ip \div 16, ip * 256)
\* ((pc >> 4) ^ (pc << 8)) & (len - 1).  The bits pc << 8 shifts out of the u64 lie
\* above the mask, so the product stands for the shift for every pc in PcValues
CurLoc(ip, len) == BitAnd(BitXor(ip \div 16, ip * 256), len - 1)

\* (variant: prev_loc takes the shifted location hash)
NextPrevLoc_cur(cur_loc, prev) == cur_loc \div 2
\* self.prev_loc >>= 1
NextPrevLoc(cur_loc, prev) == prev \div 2

\* a call of log: the program counter it was given and what it returned
LogEv(ip, res) == [op |-> "log", arg |-> res, num |-> ip, val |-> <<>>, width |-> 0]

\* log(pc), called by the tracing callback under the context lock (the program
\* counter is named ip here: pc is the position of handle_stop)
log(ip) ==
    /\ ctx = "ok" /\ pc = "idle"
    /\ Logs < MaxLogs
    /\ LET cur_loc == CurLoc(ip, Len(writer))
           index == BitXor(cur_loc, prev_loc)
       IN \* read_byte(cur_loc)? and write_at(data, index)? return the error
          \* outside the map
          IF cur_loc < Len(writer) /\ index < Len(writer)
          THEN /\ writer' = [writer EXCEPT ![index + 1] = writer[cur_loc + 1]]
               /\ prev_loc' = NextPrevLoc(cur_loc, prev_loc)
               /\ trace' = Append(trace, LogEv(ip, "Ok"))
          ELSE /\ UNCHANGED <<writer, prev_loc>>
               /\ trace' = Append(trace, LogEv(ip, "Err"))
    /\ UNCHANGED <<ctx, haps, init_info, processor, stop_reason, initialized,
                   buffer_address, buffer_size, peer, pc, maps, project, disk>>

-----------------------------------------------------------------------------
(* The fault callbacks: the simulator calls a callback only for a hap that has
   been added with SIM_hap_add_callback *)

\* bound: fault events the simulator delivers in a run
MaxFaultEvents == 3
\* exceptions the core-exception hap reports; a triple fault has its own hap
Exceptions == (Faults \ {"Triple"}) \cup {"Other"}
FaultEvents == Cardinality({i \in DOMAIN trace :
                               trace[i].op \in {"core_exception", "x86_triple_fault"}})

\* self.init_info.faults.contains(&fault)
is_fault(fault) == fault \in init_info.faults

\* a fault callback delivered for `fault` on hap `hap`: Crash if the fault is
\* configured, otherwise the event is ignored
fault_cb(hap, op, fault) ==
    /\ ctx = "ok" /\ pc = "idle"
    /\ hap \in haps
    /\ FaultEvents < MaxFaultEvents
    /\ trace' = Append(trace, Ev(op, fault))
    /\ stop_reason' = IF is_fault(fault) THEN "Crash" ELSE stop_reason
    /\ UNCHANGED <<ctx, haps, init_info, writer, processor, initialized, prev_loc,
                   buffer_address, buffer_size, peer, pc, maps, project, disk>>

core_exception_cb(exception) == fault_cb("Core_Exception", "core_exception", exception)
x86_triple_fault_cb == fault_cb("X86_Triple_Fault", "x86_triple_fault", "Triple")

-----------------------------------------------------------------------------
(* OutputConfig: the maps the module hands back to the client *)

\* bounds: entries a config holds, and calls of coverage()
MaxMaps == 3
MaxCoverageCalls == 3
\* the shared-memory regions the entries wrap
ShmIds == {1, 2}
\* MapType has the one variant Coverage(IpcShm)
Coverage(shm) == [kind |-> "Coverage", shm |-> shm]
MapTypes == {Coverage(shm) : shm \in ShmIds}

\* self.maps.push(map)
with_map(map) ==
    /\ Len(maps) < MaxMaps
    /\ maps' = Append(maps, map)
    /\ UNCHANGED <<ctx, haps, init_info, writer, processor, stop_reason, initialized,
                   prev_loc, buffer_address, buffer_size, peer, pc, trace, project, disk>>

\* maps.into_iter().for_each(|m| self.maps.push(m))
with_maps(ms) ==
    /\ Len(maps) + Len(ms) <= MaxMaps
    /\ maps' = maps \o ms
    /\ UNCHANGED <<ctx, haps, init_info, writer, processor, stop_reason, initialized,
                   prev_loc, buffer_address, buffer_size, peer, pc, trace, project, disk>>

\* (variant: the last coverage map is the one picked)
Position_last(ms) ==
    LET found == {i \in DOMAIN ms : ms[i].kind = "Coverage"}
    IN IF found = {} THEN 0 ELSE CHOOSE i \in found : \A j \in found : j <= i
\* iter().position(|m| matches!(m, MapType::Coverage(_))), counted from 1; 0 is None
Position(ms) ==
    LET found == {i \in DOMAIN ms : ms[i].kind = "Coverage"}
    IN IF found = {} THEN 0 ELSE CHOOSE i \in found : \A j \in found : i <= j

\* Vec::remove(i - 1): the later entries shift down by one
Remove(ms, i) == [k \in 1..(Len(ms) - 1) |-> IF k < i THEN ms[k] ELSE ms[k + 1]]

\* what a call of coverage() returned: Ok(shm), shm in num, or the error message
CoverageEv(res, shm) == [op |-> "coverage", arg |-> res, num |-> shm, val |-> <<>>, width |-> 0]
CoverageCalls == Cardinality({i \in DOMAIN trace : trace[i].op = "coverage"})

\* OutputConfig::coverage
coverage ==
    /\ CoverageCalls < MaxCoverageCalls
    /\ LET i == Position(maps)
       IN IF i = 0
          THEN /\ trace' = Append(trace, CoverageEv("No coverage map found", 0))
               /\ UNCHANGED maps
          ELSE /\ trace' = Append(trace, CoverageEv("Ok", maps[i].shm))
               /\ maps' = Remove(maps, i)
    /\ UNCHANGED <<ctx, haps, init_info, writer, processor, stop_reason, initialized,
                   prev_loc, buffer_address, buffer_size, peer, pc, project, disk>>

-----------------------------------------------------------------------------
(* Project and ProjectPath: the simulator project directory *)

\* bound: constructions, setups and cleanups in a run
MaxProjectOps == 4
\* names TempDir::new may pick, and directories a caller names
TempDirs == {"/tmp/project.1", "/tmp/project.2"}
CallerPaths == {"/work/project"}
\* what a builder setter was given; "unset" when it was not called
PathArgs == CallerPaths \cup {"unset"}
TemporaryArgs == {"unset", "true", "false"}

ProjectOps == Cardinality({i \in DOMAIN trace : trace[i].op \in
                  {"ProjectPath::default", "ProjectPath::from", "Project::try_from",
                   "ProjectPathBuilder::build", "setup_project", "cleanup"}})

ProjectFrame == UNCHANGED <<ctx, haps, init_info, writer, processor, stop_reason, initialized,
                   prev_loc, buffer_address, buffer_size, peer, pc, maps>>

\* ProjectPath::default(): TempDir::new creates the directory, into_path keeps it
ProjectPath_default ==
    /\ ProjectOps < MaxProjectOps
    /\ \E t \in TempDirs \ disk :
          /\ project' = [path |-> t, temporary |-> TRUE]
          /\ disk' = disk \cup {t}
          /\ trace' = Append(trace, Ev("ProjectPath::default", t))
    /\ ProjectFrame

\* impl From<P: AsRef<Path>> for ProjectPath
ProjectPath_from(value) ==
    /\ ProjectOps < MaxProjectOps
    /\ project' = [path |-> value, temporary |-> FALSE]
    /\ trace' = Append(trace, Ev("ProjectPath::from", value))
    /\ UNCHANGED disk
    /\ ProjectFrame

\* impl TryFrom<PathBuf> for Project: reads the project on disk, path: value.into()
Project_try_from(value) ==
    /\ ProjectOps < MaxProjectOps
    /\ IF value \in disk
       THEN /\ project' = [path |-> value, temporary |-> FALSE]
            /\ trace' = Append(trace, Ev("Project::try_from", value))
       ELSE /\ UNCHANGED project
            /\ trace' = Append(trace, Ev("Project::try_from", "Err"))
    /\ UNCHANGED disk
    /\ ProjectFrame

\* (variant: a path the caller names is not temporary unless the caller says so)
BuilderTemporary_false(path_arg, temporary_arg) ==
    IF temporary_arg = "unset" THEN path_arg = "unset" ELSE temporary_arg = "true"
\* #[builder(default = "true")] temporary: bool
BuilderTemporary(path_arg, temporary_arg) ==
    IF temporary_arg = "unset" THEN TRUE ELSE temporary_arg = "true"

\* the builder call, with what its two setters were given (num: 0 when temporary
\* was not set, 1 for true, 2 for false)
BuildEv(path_arg, temporary_arg) ==
    [op |-> "ProjectPathBuilder::build", arg |-> path_arg,
     num |-> (IF temporary_arg = "unset" THEN 0 ELSE IF temporary_arg = "true" THEN 1 ELSE 2),
     val |-> <<>>, width |-> 0]

\* ProjectPathBuilder::build(): path defaults to default_path(), temporary to true
ProjectPathBuilder_build(path_arg, temporary_arg) ==
    /\ ProjectOps < MaxProjectOps
    /\ IF path_arg = "unset"
       THEN \E t \in TempDirs \ disk :
               /\ project' = [path |-> t,
                              temporary |-> BuilderTemporary(path_arg, temporary_arg)]
               /\ disk' = disk \cup {t}
       ELSE /\ project' = [path |-> path_arg,
                           temporary |-> BuilderTemporary(path_arg, temporary_arg)]
            /\ UNCHANGED disk
    /\ trace' = Append(trace, BuildEv(path_arg, temporary_arg))
    /\ ProjectFrame

\* Project::setup_project: create_dir_all when the path is not a directory
setup_project ==
    /\ ProjectOps < MaxProjectOps
    /\ project # NoProject
    /\ disk' = disk \cup {project.path}
    /\ trace' = Append(trace, Ev("setup_project", project.path))
    /\ UNCHANGED project
    /\ ProjectFrame

\* Project::cleanup: remove_dir_all when the path is temporary, its error dropped
cleanup ==
    /\ ProjectOps < MaxProjectOps
    /\ project # NoProject
    /\ disk' = IF project.temporary THEN disk \ {project.path} ELSE disk
    /\ trace' = Append(trace, Ev("cleanup", project.path))
    /\ UNCHANGED project
    /\ ProjectFrame

-----------------------------------------------------------------------------
(* Specifications *)

Next ==
    \/ fuzzer_disconnect
    \/ try_new
    \/ set_processor
    \/ \E reason \in StopReasons \ {"None"} : set_stopped_reason(reason)
    \/ handle_stop
    \/ handle_stop_recv_reset
    \/ handle_stop_recv_run

Spec == Init /\ [][Next]_vars

\* The same harness when an error returned by handle_stop ends the run: the
\* simulation-stopped callback does not call handle_stop again after a failure
handle_stop_fatal == ~Failed /\ handle_stop

NextFatal ==
    \/ fuzzer_disconnect
    \/ try_new
    \/ set_processor
    \/ \E reason \in StopReasons \ {"None"} : set_stopped_reason(reason)
    \/ handle_stop_fatal
    \/ handle_stop_recv_reset
    \/ handle_stop_recv_run

SpecFatal == Init /\ [][NextFatal]_vars

\* Bootstrap and coverage tracing on a map long enough for the fill pattern to
\* wrap and for both terms of the location hash to reach under the mask.  log
\* reads and writes only writer and prev_loc, which handle_stop leaves alone
try_new_log == try_new_cfg(LogMapLen, Configs)

NextLog ==
    \/ try_new_log
    \/ \E ip \in PcValues : log(ip)

SpecLog == Init /\ [][NextLog]_vars

\* Bootstrap under every fault configuration, then the fault events of a run
try_new_boot == try_new_cfg(MapLen, Configs)

NextBoot ==
    \/ fuzzer_disconnect
    \/ try_new_boot
    \/ \E exception \in Exceptions : core_exception_cb(exception)
    \/ x86_triple_fault_cb

SpecBoot == Init /\ [][NextBoot]_vars

\* The life of project directories: made in every way the crate offers, set up,
\* cleaned up
NextProject ==
    \/ ProjectPath_default
    \/ \E value \in CallerPaths : ProjectPath_from(value)
    \/ \E value \in CallerPaths : Project_try_from(value)
    \/ \E path_arg \in PathArgs, temporary_arg \in TemporaryArgs :
          ProjectPathBuilder_build(path_arg, temporary_arg)
    \/ setup_project
    \/ cleanup

SpecProject == Init /\ [][NextProject]_vars

\* A client building an OutputConfig and taking the coverage map out of it
NextConfig ==
    \/ \E map \in MapTypes : with_map(map)
    \/ \E ms \in {<<Coverage(2), Coverage(1)>>} : with_maps(ms)
    \/ coverage

SpecConfig == Init /\ [][NextConfig]_vars

-----------------------------------------------------------------------------
(* Views used by the properties *)

IsSend(e) == e.op = "send"
\* the harness -> fuzzer stream so far
Sent == SelectSeq(trace, IsSend)
Last(seq) == seq[Len(seq)]
\* the step is a return of handle_stop
Returns == trace' # trace /\ Last(trace').op = "ret"
\* the step called VT_save_micro_checkpoint
Saves == Len(trace') > Len(trace)
             /\ \E i \in (Len(trace) + 1)..Len(trace') : trace'[i].op = "save"
IsStopped(e) == e.op = "send" /\ e.arg \in {"Stopped_Normal", "Stopped_Crash"}
IsReady(e) == e.op = "send" /\ e.arg = "Ready"

-----------------------------------------------------------------------------
(* C1 - C10 *)

\* C1: over any sequence of stop events and fuzzer messages, including one in
\* which a handle_stop call returns an error and a later call follows,
\* VT_save_micro_checkpoint("origin") is called at most once.
C1_SaveAtMostOnce == Count("save", "origin") <= 1

\* C2: VT_restore_micro_checkpoint is called only after VT_save_micro_checkpoint:
\* every restore in the trace has a save before it.
C2_RestoreOnlyAfterSave ==
    \A i \in Positions("restore", "0") : \E j \in 1..(i - 1) : trace[j].op = "save"

\* C3: between handle_stop calls (after any call returns, with Ok or with an
\* error), initialized is true if and only if the origin snapshot has been saved.
C3_InitializedIffSaved ==
    pc = "idle" => (initialized <=> Count("save", "origin") > 0)

\* C4: buffer_address and buffer_size are assigned only in a handle_stop step that
\* saves the origin snapshot and turns initialized from false to true, they get
\* the values read from rsi and rdi respectively in that step, and initialized
\* never goes back to false: so they are assigned exactly once and no later
\* handle_stop call changes them.
C4_Step ==
    /\ (buffer_address' # buffer_address \/ buffer_size' # buffer_size)
          => (~initialized /\ initialized' /\ Saves)
    /\ (~initialized /\ initialized')
          => /\ Saves
             /\ \E i \in (Len(trace) + 1)..Len(trace') :
                   trace'[i] = ReadEv("rsi", buffer_address')
             /\ \E i \in (Len(trace) + 1)..Len(trace') :
                   trace'[i] = ReadEv("rdi", buffer_size')
    /\ initialized => initialized'
    /\ ~initialized' => (buffer_address' = 0 /\ buffer_size' = 0)
C5_StopReasonClearedOnReturn == [][Returns => stop_reason' = "None"]_vars

\* C6: first-wins: a callback that sets a stop reason while one is pending leaves
\* the pending reason in place (a step that changes stop_reason without any
\* effect of handle_stop is a set_stopped_reason call).
C6_FirstWins ==
    [][(trace' = trace /\ stop_reason # "None") => stop_reason' = stop_reason]_vars

\* C7: SharedMem is sent exactly once, by try_new, as the first message of the
\* harness -> fuzzer stream: a built context has sent it, nothing is sent before
\* it, it is never sent again, and it precedes every handle_stop call.
C7_SharedMemFirstAndOnce ==
    /\ ctx = "ok" => Count("send", "SharedMem") = 1
    /\ Count("send", "SharedMem") <= 1
    /\ Sent # <<>> => Sent[1].arg = "SharedMem"
    /\ \A i \in Positions("send", "SharedMem") : \A j \in 1..i : trace[j].op # "call"

\* C7 witness: SharedMem, then a Ready and a Stopped on the stream
C7_Witness ==
    /\ Len(Sent) >= 3
    /\ Sent[1].arg = "SharedMem"
    /\ \E i \in 2..Len(Sent) : Sent[i].arg = "Ready"
    /\ \E i \in 2..Len(Sent) : Sent[i].arg = "Stopped_Normal"

\* C8: in every state in which handle_stop has returned Ok, the harness has
\* sent as many Ready messages as it has accepted Run messages.
C8_ReadyEqualsRunWhenOk ==
    (pc = "idle" /\ trace # <<>> /\ Last(trace) = Ev("ret", "Ok"))
        => Count("send", "Ready") = Count("recv", "Run")

\* C8 witness: two iterations have been started, the second after a Stopped, and
\* the last handle_stop call returned Ok
C8_Witness ==
    /\ pc = "idle" /\ trace # <<>> /\ Last(trace) = Ev("ret", "Ok")
    /\ Count("send", "Ready") = 2
    /\ Count("send", "Stopped_Normal") = 1

\* Reset or Stop messages accepted strictly between two trace positions
ResetsBetween(i, j) ==
    {k \in (i + 1)..(j - 1) : trace[k].op = "recv" /\ trace[k].arg \in {"Reset", "Stop"}}
\* j is the first Ready sent after position i
NextReady(i, j) ==
    /\ i < j /\ IsReady(trace[j])
    /\ \A k \in (i + 1)..(j - 1) : ~IsReady(trace[k])

\* C9: between any Stopped(_) the harness sends and the next Ready it sends, it
\* receives exactly one Reset or Stop: never none, never two.
C9_OneResetOrStopBeforeReady ==
    \A i \in DOMAIN trace : \A j \in DOMAIN trace :
        (IsStopped(trace[i]) /\ NextReady(i, j))
            => Cardinality(ResetsBetween(i, j)) = 1

\* C9 witness: a Stopped, then Stop received, then the next Ready; and in the same
\* run a Stopped answered by Reset
C9_Witness ==
    /\ \E i \in DOMAIN trace : \E j \in DOMAIN trace :
          /\ IsStopped(trace[i]) /\ NextReady(i, j)
          /\ \E k \in ResetsBetween(i, j) : trace[k].arg = "Stop"
    /\ \E i \in DOMAIN trace : \E j \in DOMAIN trace :
          /\ IsStopped(trace[i]) /\ NextReady(i, j)
          /\ \E k \in ResetsBetween(i, j) : trace[k].arg = "Reset"

\* C10: after SharedMem the harness -> fuzzer stream alternates Ready, Stopped,
\* Ready, Stopped, ... starting with Ready, and every Run is accepted after a
\* Ready that no earlier Run has used up.
C10_ReadyStoppedAlternate ==
    /\ \A k \in 2..Len(Sent) :
          IF k % 2 = 0 THEN IsReady(Sent[k]) ELSE IsStopped(Sent[k])
    /\ \A i \in Positions("recv", "Run") :
          Cardinality({j \in 1..i : IsReady(trace[j])})
              >= Cardinality({j \in 1..i : trace[j].op = "recv" /\ trace[j].arg = "Run"})

-----------------------------------------------------------------------------
(* C11 - C20 *)

\* the effects the step adds to the trace
NewEvents == SubSeq(trace', Len(trace) + 1, Len(trace'))
\* the step enters handle_stop
Enters == Len(trace') > Len(trace) /\ trace'[Len(trace) + 1].op = "call"
\* a tx.send of a Stopped(_) message, whatever it returned
IsStoppedAttempt(e) ==
    /\ e.op \in {"send", "send_err"}
    /\ e.arg \in {"Stopped_Normal", "Stopped_Crash", "Stopped_Timeout"}
StoppedAttempts(evs) == {i \in DOMAIN evs : IsStoppedAttempt(evs[i])}

\* C11: when the harness has sent Stopped(_) and then receives Stop, it shuts down
\* cleanly: the only effect that follows the accepted Stop is the return of
\* handle_stop (no restore, no Ready or other message, no further receive, no
\* resume), and handle_stop does not wait for another message.
C11_StopShutsDownCleanly ==
    \A i \in Positions("recv", "Stop") :
        /\ i < Len(trace) => trace[i + 1].op = "ret"
        /\ i = Len(trace) => pc = "idle"

\* an iteration is running: the last handle_stop call resumed the simulator and
\* returned Ok
IterationRunning ==
    /\ Len(trace) >= 2
    /\ Last(trace) = Ev("ret", "Ok")
    /\ trace[Len(trace) - 1].op = "resume"

\* C12: when an iteration ends by timeout (the simulation is stopped while the
\* iteration runs and neither a stop magic nor a fault is pending), handle_stop
\* sends Stopped(Timeout) to the fuzzer.
C12_TimeoutReported ==
    [][(Enters /\ IterationRunning /\ stop_reason = "None")
          => \E i \in DOMAIN NewEvents : NewEvents[i] = Ev("send", "Stopped_Timeout")]_vars

\* C13: a handle_stop call with pending reason Magic::Stop issues exactly one
\* Stopped send, Stopped(Normal); with pending reason Crash exactly one,
\* Stopped(Crash); in both cases it is the first effect of the call, before any
\* receive; a call with pending reason Magic::Start, and every later step of any
\* call, issues no Stopped send.
C13_Step ==
    /\ (Enters /\ stop_reason = "MagicStop")
          => /\ StoppedAttempts(NewEvents) = {2}
             /\ NewEvents[2].arg = "Stopped_Normal"
    /\ (Enters /\ stop_reason = "Crash")
          => /\ StoppedAttempts(NewEvents) = {2}
             /\ NewEvents[2].arg = "Stopped_Crash"
    /\ (Enters /\ stop_reason \in {"MagicStart", "None"})
          => StoppedAttempts(NewEvents) = {}
    /\ Enters => \A i \in DOMAIN NewEvents : NewEvents[i].op \notin {"recv", "unexpected"}
    /\ (~Enters /\ trace' # trace) => StoppedAttempts(NewEvents) = {}
C13_StopClassification == [][C13_Step]_vars

\* C13 witness: a stop magic and a crash have both been reported, each Stopped
\* followed by the wait for the fuzzer's answer
C13_Witness ==
    /\ Count("send", "Stopped_Normal") = 1
    /\ Count("send", "Stopped_Crash") = 1
    /\ Count("recv", "Reset") >= 1
    /\ pc = "wait_reset"

\* the step accepts a Run message
AcceptsRun ==
    /\ pc = "wait_run"
    /\ NewEvents # <<>>
    /\ NewEvents[1].op = "recv" /\ NewEvents[1].arg = "Run"
\* the physical-memory writes among a sequence of effects
Writes(evs) == {i \in DOMAIN evs : evs[i].op = "write"}

\* C14: for every Run(input) accepted, in the first iteration and in every later
\* one, the harness issues ceil(|input| / 8) physical-memory writes, the k-th
\* (from 0) at buffer_address + 8k, with the bytes input[8k .. 8k+8) padded with
\* zeros on the right as the little-endian value, and with width 8 for a full
\* chunk and |input| mod 8 for a final partial chunk; then it requests a resume
\* and returns Ok.  For |input| = 0 it issues no write and still resumes.
C14_Step ==
    AcceptsRun =>
        LET input == NewEvents[1].val
            n == IF Len(input) % 8 = 0 THEN Len(input) \div 8 ELSE Len(input) \div 8 + 1
        IN /\ Len(NewEvents) = n + 3
           /\ \A k \in 0..(n - 1) :
                 LET w == NewEvents[2 + k]
                 IN /\ w.op = "write"
                    /\ w.num = buffer_address + 8 * k
                    /\ w.width = IF 8 * k + 8 <= Len(input) THEN 8 ELSE Len(input) % 8
                    /\ Len(w.val) = 8
                    /\ \A j \in 1..8 :
                          w.val[j] = IF 8 * k + j <= Len(input) THEN input[8 * k + j] ELSE 0
           /\ NewEvents[n + 2] = Ev("resume", "")
           /\ NewEvents[n + 3] = Ev("ret", "Ok")
C14_InputInjection == [][C14_Step]_vars

\* C14 witness: a first iteration was given an input of one full and one partial
\* chunk, a later iteration the empty input, and both were resumed
C14_Witness ==
    /\ \E i \in Positions("recv", "Run") : \E j \in Positions("recv", "Run") :
          /\ i < j
          /\ Len(trace[i].val) = 11
          /\ trace[j].val = <<>>
          /\ \E k \in (i + 1)..(j - 1) : trace[k].op = "restore"
    /\ Cardinality(Writes(trace)) = 2
    /\ Count("resume", "") = 2
    /\ initialized /\ buffer_address = 64

\* C15: for every Run(input), no physical-memory write reaches buffer_address +
\* buffer_size or beyond, and the bytes written are min(|input|, buffer_size) in
\* all, also when |input| > buffer_size.
C15_Step ==
    AcceptsRun =>
        LET input == NewEvents[1].val
            total == IF Len(input) < buffer_size THEN Len(input) ELSE buffer_size
            RECURSIVE Sum(_)
            Sum(S) == IF S = {} THEN 0
                      ELSE LET i == CHOOSE x \in S : TRUE
                           IN NewEvents[i].width + Sum(S \ {i})
        IN /\ \A i \in Writes(NewEvents) :
                 NewEvents[i].num + NewEvents[i].width <= buffer_address + buffer_size
           /\ Sum(Writes(NewEvents)) = total
C15_WritesWithinBuffer == [][C15_Step]_vars

\* C16: if the first message try_new receives is anything other than Initialize,
\* try_new fails: no SharedMem is sent or attempted, no fault hap (X86_Triple_Fault,
\* Core_Exception) is installed, no context is created and nothing else happens.
C16_NonInitializeAbortsStartup ==
    (trace # <<>> /\ trace[1].op \in {"recv", "unexpected"} /\ trace[1].arg # "Initialize")
        => /\ ctx = "failed"
           /\ \A i \in DOMAIN trace : trace[i].arg # "SharedMem"
           /\ haps \cap {"X86_Triple_Fault", "Core_Exception"} = {}
           /\ writer = <<>>
           /\ Len(trace) = 1

\* C16 witness: the first message was a Reset and the run has gone on
C16_Witness ==
    /\ trace = <<Ev("unexpected", "Reset")>>
    /\ ctx = "failed"
    /\ peer = "closing"

\* C17: after bootstrap every byte of the coverage map is its index modulo 256
\* (so byte 255 is 255 and byte 256 is 0).
C17_MapPattern ==
    (ctx = "ok" /\ Logs = 0)
        => \A i \in 0..(Len(writer) - 1) : writer[i + 1] = i % 256

\* the step is a call of log
LogStep == NewEvents # <<>> /\ NewEvents[1].op = "log"
\* the index log is to update: cur XOR prev_loc
LogIndex == BitXor(CurLoc(NewEvents[1].num, Len(writer)), prev_loc)

\* C18: log(pc) increments the byte at cur XOR prev_loc by one modulo 256 and
\* leaves every other byte of the map unchanged.
C18_LogIncrements ==
    [][LogStep =>
          /\ writer'[LogIndex + 1] = (writer[LogIndex + 1] + 1) % 256
          /\ \A i \in DOMAIN writer : i # LogIndex + 1 => writer'[i] = writer[i]]_vars

\* C19: after every log(pc) call prev_loc is cur >> 1, cur the location hash of
\* that call.
C19_PrevLocIsCurShifted ==
    [][LogStep => prev_loc' = CurLoc(NewEvents[1].num, Len(writer)) \div 2]_vars

\* C20: the update depends on the configured trace mode: in Once mode log ORs 1
\* into the byte at cur XOR prev_loc, in HitCount mode it counts the byte up by
\* one (staying at, or wrapping from, 255).
C20_TraceModeUpdate ==
    [][LogStep =>
          LET old == writer[LogIndex + 1]
              new == writer'[LogIndex + 1]
          IN /\ init_info.trace_mode = "Once"
                   => new = (IF old % 2 = 0 THEN old + 1 ELSE old)
             /\ init_info.trace_mode = "HitCount"
                   => (new = (old + 1) % 256 \/ (old = 255 /\ new = 255))]_vars

-----------------------------------------------------------------------------
(* C21 - C30 *)

\* C21: for a map whose length is a power of two, the index log reads (cur) and
\* the index it writes (cur XOR prev_loc) are below the length, whatever the pc
\* and the earlier log calls, and log never returns the out-of-range error.
C21_LogInRange ==
    [][LogStep =>
          /\ CurLoc(NewEvents[1].num, Len(writer)) < Len(writer)
          /\ LogIndex < Len(writer)
          /\ NewEvents[1].arg = "Ok"]_vars

\* C21 witness: log has returned Ok for a pc whose hash takes a bit from each of
\* its two terms, then for a pc with every bit under the mask set
C21_Witness ==
    \E i \in DOMAIN trace : \E j \in DOMAIN trace :
        /\ i < j
        /\ trace[i] = LogEv(33, "Ok")
        /\ trace[j] = LogEv(8388607, "Ok")

\* A fuzzing run with coverage tracing: the tracing callback calls log under the
\* context lock whenever no handle_stop call is in progress
MaxIterLogs == 1
IterPcValues == {33}
log_iter == Logs < MaxIterLogs /\ \E ip \in IterPcValues : log(ip)

NextRun ==
    \/ try_new
    \/ set_processor
    \/ \E reason \in StopReasons \ {"None"} : set_stopped_reason(reason)
    \/ handle_stop
    \/ handle_stop_recv_reset
    \/ handle_stop_recv_run
    \/ log_iter

SpecRun == Init /\ [][NextRun]_vars

\* the handle_stop call that is returning handled a Reset
ResetHandled ==
    /\ Returns
    /\ \E i \in DOMAIN trace' :
          /\ trace'[i] = Ev("restore", "0")
          /\ \A j \in DOMAIN trace' : j > i => trace'[j].op # "call"

\* C22: prev_loc is 0 in the state in which handle_stop returns after a Reset and
\* the restore, whatever log calls happened before it.
C22_PrevLocZeroAfterReset == [][ResetHandled => prev_loc' = 0]_vars

\* C22 witness: log ran in the iteration that a Reset then ended, and handle_stop
\* has returned from that Reset with the next iteration resumed
C22_Witness ==
    /\ IterationRunning
    /\ \E i \in Positions("log", "Ok") : \E j \in Positions("restore", "0") :
          /\ i < j
          /\ trace[i - 1] = Ev("ret", "Ok")
          /\ \A k \in DOMAIN trace : k > j => trace[k].op # "call"

\* C23: no step of handle_stop, in any branch, changes a byte of the coverage
\* map; handling Reset neither clears nor rewrites it.
C23_HandleStopKeepsMap == [][(Enters \/ pc # "idle") => writer' = writer]_vars

\* C23 witness: after a log call a crash was reported, Reset was received and the
\* checkpoint restored, and the map still holds what it held before the call
C23_Witness ==
    /\ pc = "wait_run"
    /\ writer = InitialMap(MapLen)
    /\ Count("send", "Stopped_Crash") = 1
    /\ \E i \in Positions("log", "Ok") : \E j \in Positions("restore", "0") : i < j

\* the step is a call of OutputConfig::coverage
CoverageStep == NewEvents # <<>> /\ NewEvents[1].op = "coverage"

\* C24: coverage() removes what it returns: on a config holding k >= 1 coverage
\* maps it returns the first and leaves the other k - 1 in their order; on a
\* config with none it returns the error "No coverage map found" and leaves the
\* list unchanged, so the second call on a config that held one map fails.
C24_CoverageRemoves ==
    [][CoverageStep =>
          IF \E i \in DOMAIN maps : maps[i].kind = "Coverage"
          THEN /\ NewEvents = <<CoverageEv("Ok", Head(maps).shm)>>
               /\ maps' = Tail(maps)
          ELSE /\ NewEvents = <<CoverageEv("No coverage map found", 0)>>
               /\ maps' = maps]_vars

\* C24 witness: three calls on a config that held the maps 2 and 1 returned 2,
\* then 1 (the call on a config holding one map), and then failed
C24_Witness ==
    /\ trace = <<CoverageEv("Ok", 2), CoverageEv("Ok", 1),
                 CoverageEv("No coverage map found", 0)>>
    /\ maps = <<>>

\* the effect at position i of the trace, if the trace is that long
At(i, e) == i <= Len(trace) => trace[i] = e
\* the position of the call effect that opens the handle_stop call holding i
CallOf(i) == CHOOSE c \in 1..i : trace[c].op = "call" /\ \A k \in (c + 1)..i : trace[k].op # "call"

\* C25: the effects of handle_stop after it receives Reset come in this order:
\* restore(0), discard_future, send Ready, receive Run(input), the writes of the
\* input, resume; Ready is not sent and no memory is written between the entry
\* of the call and the restore.
C25_ResetEffectOrder ==
    \A i \in Positions("recv", "Reset") :
        /\ At(i + 1, Ev("restore", "0"))
        /\ At(i + 2, Ev("discard_future", ""))
        /\ i + 3 <= Len(trace) => trace[i + 3] \in {Ev("send", "Ready"), Ev("send_err", "Ready")}
        /\ (i + 4 <= Len(trace) /\ trace[i + 4].op = "recv")
              => /\ trace[i + 3] = Ev("send", "Ready")
                 /\ trace[i + 4].arg = "Run"
                 /\ LET n == NumChunks(trace[i + 4].val)
                    IN /\ \A k \in 1..n : trace[i + 4 + k].op = "write"
                       /\ trace[i + 5 + n] = Ev("resume", "")
                       /\ trace[i + 6 + n] = Ev("ret", "Ok")
        /\ \A k \in CallOf(i)..i :
              /\ trace[k].op # "write"
              /\ ~(trace[k].op \in {"send", "send_err"} /\ trace[k].arg = "Ready")

\* C25 witness: a call received Reset, restored, sent Ready, received a Run with a
\* non-empty input, wrote it and resumed
C25_Witness ==
    \E i \in Positions("recv", "Reset") :
        /\ Len(trace) >= i + 7
        /\ trace[i + 4].op = "recv" /\ trace[i + 4].val # <<>>
        /\ trace[i + 5].op = "write"
        /\ Last(trace) = Ev("ret", "Ok")

\* C26: every restore is immediately followed by discard_future, with no other
\* simulator call or message in between, and discard_future is never called
\* without the restore directly before it.
C26_RestoreDiscardPaired ==
    /\ \A i \in Positions("restore", "0") :
          i < Len(trace) /\ trace[i + 1] = Ev("discard_future", "")
    /\ \A i \in Positions("discard_future", "") :
          i > 1 /\ trace[i - 1] = Ev("restore", "0")

\* C26 witness: after a snapshot was saved, a Reset restored it and discarded the
\* future, and Ready went out
C26_Witness ==
    /\ pc = "wait_run"
    /\ Count("save", "origin") = 1
    /\ Len(trace) >= 3
    /\ Last(trace) = Ev("send", "Ready")
    /\ trace[Len(trace) - 1] = Ev("discard_future", "")
    /\ trace[Len(trace) - 2] = Ev("restore", "0")

\* C27: a handle_stop call with pending reason Magic::Start and initialized set
\* only requests a resume (no checkpoint, no register read, no message sent or
\* received, no memory write) and returns, leaving initialized, buffer_address,
\* buffer_size and prev_loc as they were.
C27_StartWhenInitialized ==
    [][(Enters /\ stop_reason = "MagicStart" /\ initialized)
          => /\ NewEvents = <<Ev("call", ""), Ev("resume", ""), Ev("ret", "Ok")>>
             /\ UNCHANGED <<initialized, buffer_address, buffer_size, prev_loc>>]_vars

\* C27 witness: the first start magic took the snapshot and ran an input, and the
\* call for a second start magic has returned
C27_Witness ==
    /\ initialized /\ buffer_address = 64 /\ buffer_size = 8
    /\ Calls = 2
    /\ Count("recv", "Run") = 1
    /\ Len(trace) >= 3
    /\ SubSeq(trace, Len(trace) - 2, Len(trace))
          = <<Ev("call", ""), Ev("resume", ""), Ev("ret", "Ok")>>

\* the step continues handle_stop with a message taken from the channel
TakesMessage == pc # "idle" /\ NewEvents # <<>> /\ NewEvents[1].op \in {"recv", "unexpected"}

\* C28: a message other than the one the protocol state demands is an error:
\* after Ready a message other than Run makes handle_stop return an error with no
\* memory write and no resume; after Stopped a message other than Reset or Stop
\* makes it return an error with no restore, no Ready and no resume.
C28_Step ==
    /\ (TakesMessage /\ pc = "wait_run" /\ NewEvents[1].arg # "Run")
          => /\ NewEvents = <<Ev("unexpected", NewEvents[1].arg), Ev("ret", "Err")>>
             /\ pc' = "idle"
    /\ (TakesMessage /\ pc = "wait_reset" /\ NewEvents[1].arg \notin {"Reset", "Stop"})
          => /\ NewEvents = <<Ev("unexpected", NewEvents[1].arg), Ev("ret", "Err")>>
             /\ pc' = "idle"
C28_ProtocolErrors == [][C28_Step]_vars

\* C28 witness: one call failed on a Run that came after Stopped, another on a
\* Reset that came after Ready
C28_Witness ==
    /\ ctx = "ok" /\ pc = "idle"
    /\ \E i \in Positions("unexpected", "Run") :
          i > 1 /\ trace[i - 1] = AttrEv(1)
                /\ trace[i + 1] = Ev("ret", "Err")
    /\ \E i \in Positions("unexpected", "Reset") :
          i > 1 /\ trace[i - 1] = Ev("send", "Ready")
                /\ trace[i + 1] = Ev("ret", "Err")

\* the step is a recv that returned the disconnect error
RecvFails == pc # "idle" /\ peer' = "gone"

\* C29: when the fuzzer has disconnected while handle_stop is blocked in recv
\* (for Reset or Stop after Stopped, or for Run after Ready), handle_stop returns
\* an error, and nothing follows the failed recv in the call: no restore, no
\* message sent, no resume.
C29_DisconnectFails ==
    [][RecvFails => NewEvents = <<Ev("ret", "Err")>> /\ pc' = "idle"]_vars

\* C29 witness: the fuzzer went away while the first call waited for Run after
\* Ready, and the next call found it gone while it waited for Reset or Stop
C29_Witness ==
    /\ peer = "gone" /\ pc = "idle"
    /\ \E i \in Positions("send", "Ready") : \E j \in Positions("ret", "Err") :
          /\ trace[i - 1].op = "read"
          /\ i + 1 = j
          /\ j + 4 = Len(trace)
          /\ trace[j + 3] = AttrEv(1)
          /\ trace[j + 4] = Ev("ret", "Err")

\* C30: once try_new has succeeded, the X86_Triple_Fault callback is installed
\* exactly when Triple is in cfg.faults and the Core_Exception callback exactly
\* when cfg.faults holds a fault other than Triple; with cfg.faults = {Triple} no
\* core-exception event sets Crash, and with cfg.faults empty no fault callback
\* is installed.
C30_Step ==
    /\ ctx' = "ok" =>
          /\ "X86_Triple_Fault" \in haps' <=> "Triple" \in init_info'.faults
          /\ "Core_Exception" \in haps' <=> init_info'.faults \ {"Triple"} # {}
          /\ init_info'.faults = {} => haps' = BaseHaps
    /\ (init_info.faults = {"Triple"} /\ NewEvents # <<>>
           /\ NewEvents[1].op = "core_exception")
          => stop_reason' # "Crash"
    /\ (ctx = "ok" /\ init_info.faults = {"Triple"} /\ stop_reason # "Crash"
           /\ stop_reason' = "Crash")
          => NewEvents = <<Ev("x86_triple_fault", "Triple")>>
C30_FaultCallbacksPerConfig == [][C30_Step]_vars

\* C30 witness: configured with {Triple} the harness installed the triple-fault
\* callback only, and a triple fault has set Crash
C30_Witness ==
    /\ ctx = "ok"
    /\ init_info.faults = {"Triple"}
    /\ haps = BaseHaps \cup {"X86_Triple_Fault"}
    /\ stop_reason = "Crash"
    /\ Last(trace) = Ev("x86_triple_fault", "Triple")

-----------------------------------------------------------------------------
(* C31 - C34 *)

\* the effects of the handle_stop call that is returning, from its call effect
ReturningCall ==
    LET c == CHOOSE c \in DOMAIN trace' :
                 /\ trace'[c].op = "call"
                 /\ \A k \in DOMAIN trace' : k > c => trace'[k].op # "call"
    IN SubSeq(trace', c, Len(trace'))
\* the effects that reach the simulator
SimulatorFacing(e) ==
    e.op \in {"save", "restore", "discard_future", "get_number", "read",
              "get_attribute", "write", "resume"}

\* C31: a handle_stop call that returns Ok with a reason pending (Magic::Start,
\* Magic::Stop, Crash) has requested a resume exactly once, as its last
\* simulator-facing action; a call with no reason pending has no effect at all:
\* no resume, no message, no simulator call, and no field of the context changes.
C31_Step ==
    /\ (Returns /\ Last(trace') = Ev("ret", "Ok") /\ stop_reason # "None")
          => LET seg == ReturningCall
                 resumes == {i \in DOMAIN seg : seg[i].op = "resume"}
             IN /\ Cardinality(resumes) = 1
                /\ \A i \in DOMAIN seg : \A r \in resumes :
                      SimulatorFacing(seg[i]) => i <= r
    /\ (Enters /\ stop_reason = "None")
          => /\ NewEvents = <<Ev("call", ""), Ev("ret", "Ok")>>
             /\ UNCHANGED <<ctx, haps, init_info, writer, processor, stop_reason,
                            initialized, prev_loc, buffer_address, buffer_size, peer>>
C31_ResumeOncePerOkCall == [][C31_Step]_vars

\* C31 witness: a call with no reason pending returned, and a later call that
\* restored the checkpoint and wrote an input resumed once and returned Ok
C31_Witness ==
    /\ pc = "idle" /\ Calls = 2
    /\ \E i \in Positions("call", "") : trace[i + 1] = Ev("ret", "Ok")
    /\ Count("restore", "0") = 1
    /\ Count("resume", "") = 1
    /\ Len(trace) >= 3
    /\ trace[Len(trace) - 2].op = "write"
    /\ trace[Len(trace) - 1] = Ev("resume", "")
    /\ Last(trace) = Ev("ret", "Ok")

\* The running harness with the fuzzer and the guest of a fuzzing campaign.  The
\* simulator calls handle_stop when a guest event has stopped the simulation; the
\* simulation runs after bootstrap and after every call that resumed it
SimRunning == ctx = "ok" /\ pc = "idle" /\ (Calls = 0 \/ IterationRunning)

\* the guest raises a stop event while it runs
guest_stop(reason) == SimRunning /\ stop_reason = "None" /\ set_stopped_reason(reason)

\* the simulation-stopped callback for the pending guest event
stopped_cb ==
    /\ SimRunning /\ stop_reason # "None"
    /\ \/ handle_stop_start_initialized
       \/ handle_stop_start_snapshot
       \/ handle_stop_stopped

\* the cooperative fuzzer: Reset is its answer to Stopped, Run its answer to Ready
fuzzer_reset == handle_stop_recv_reset /\ trace'[Len(trace) + 1] = Ev("recv", "Reset")
fuzzer_run == handle_stop_recv_run /\ trace'[Len(trace) + 1].op = "recv"

\* the effects of the latest handle_stop call
LatestCall ==
    LET c == CHOOSE c \in DOMAIN trace :
                 /\ trace[c].op = "call"
                 /\ \A k \in DOMAIN trace : k > c => trace[k].op # "call"
    IN SubSeq(trace, c, Len(trace))

\* the effect log keeps the latest call only, so that a campaign has no last call
forget ==
    /\ pc = "idle" /\ Calls = MaxCalls
    /\ trace' = LatestCall
    /\ UNCHANGED <<ctx, haps, init_info, writer, processor, stop_reason, initialized,
                   prev_loc, buffer_address, buffer_size, peer, pc, maps, project, disk>>

NextLive ==
    \/ try_new
    \/ set_processor
    \/ \E reason \in StopReasons \ {"None"} : guest_stop(reason)
    \/ stopped_cb
    \/ fuzzer_reset
    \/ fuzzer_run
    \/ forget

\* the simulator delivers the stopped callback, the fuzzer answers, the guest
\* raises an event after every resume
SpecLive ==
    /\ Init /\ [][NextLive]_vars
    /\ WF_vars(stopped_cb)
    /\ WF_vars(fuzzer_reset)
    /\ WF_vars(fuzzer_run)
    /\ WF_vars(\E reason \in StopReasons \ {"None"} : guest_stop(reason))
    /\ WF_vars(forget)

\* the messages exchanged so far, and the latest of them
Messages == SelectSeq(trace, LAMBDA e : e.op \in {"send", "recv"})
RunAccepted == Messages # <<>> /\ Last(Messages).op = "recv" /\ Last(Messages).arg = "Run"
StoppedSent == Messages # <<>> /\ IsStopped(Last(Messages))
\* the latest call restored the checkpoint, sent Ready, resumed and returned Ok
Restarted ==
    /\ IterationRunning
    /\ \E i \in DOMAIN LatestCall : \E j \in DOMAIN LatestCall :
          /\ i < j
          /\ LatestCall[i] = Ev("restore", "0")
          /\ LatestCall[j] = Ev("send", "Ready")

EnvironmentOk ==
    /\ (stop_reason # "None" \/ pc # "idle") => processor
    /\ \A i \in DOMAIN trace :
          (trace[i].op \in {"save", "get_number"} /\ i < Len(trace))
              => trace[i + 1] # Ev("ret", "Err")
    /\ \A i \in DOMAIN trace : trace[i].op = "get_attribute" => trace[i].num = 1
    /\ ~(pc = "idle" /\ initialized /\ stop_reason = "MagicStart")

C33_Step ==
    (/\ Enters /\ stop_reason \in {"MagicStop", "Crash"}
     /\ \E i \in DOMAIN NewEvents :
           NewEvents[i].op = "get_attribute" /\ NewEvents[i].num # 1)
        => /\ \E size \in SinfoSizes \ {1} :
                 NewEvents = <<Ev("call", ""), Ev("send", StopType(stop_reason)),
                               AttrEv(size), Ev("ret", "Err")>>
           /\ pc' = "idle"
C33_StateInfoSizeChecked == [][C33_Step]_vars

\* C33 witness: a crash was reported, state_info had two elements, and the call
\* has returned the error
C33_Witness ==
    /\ pc = "idle"
    /\ Len(trace) >= 4
    /\ SubSeq(trace, Len(trace) - 3, Len(trace))
          = <<Ev("call", ""), Ev("send", "Stopped_Crash"), AttrEv(2), Ev("ret", "Err")>>

\* the construction that made the current ProjectPath
Constructions ==
    {i \in DOMAIN trace :
        \/ trace[i].op \in {"ProjectPath::default", "ProjectPath::from",
                            "ProjectPathBuilder::build"}
        \/ trace[i].op = "Project::try_from" /\ trace[i].arg # "Err"}
LatestConstruction == trace[CHOOSE i \in Constructions : \A j \in Constructions : j <= i]
\* the caller supplied the path: From, Project::try_from, or the builder with
\* path set and temporary left unset
CallerSupplied ==
    /\ Constructions # {}
    /\ \/ LatestConstruction.op \in {"ProjectPath::from", "Project::try_from"}
       \/ /\ LatestConstruction.op = "ProjectPathBuilder::build"
          /\ LatestConstruction.arg # "unset"
          /\ LatestConstruction.num = 0
\* the step is a call of Project::cleanup
CleanupStep == NewEvents # <<>> /\ NewEvents[1].op = "cleanup"

\* C34: Project::cleanup leaves the project directory in place whenever the
\* ProjectPath was made from a path the caller supplied: by From, by
\* Project::try_from, or by the builder with path set and temporary left unset.
C34_CleanupKeepsCallerPaths ==
    [][(CleanupStep /\ CallerSupplied) => disk' = disk]_vars

=============================================================================
